---- MODULE Spec2Model ----
(***************************************************************************)
(* Model of the National Medical Coding Portal front end.                  *)
(*                                                                         *)
(*   - the tabbed App            (src/unnamed/part_000, lines 37-599)      *)
(*   - the single-view App       (src/frontend/src/App.jsx)                *)
(*   - the API helpers           (src/unnamed/part_000, lines 1-36)        *)
(*                                                                         *)
(* A React component's state is a record of its useState cells.  One event *)
(* handler runs to completion, React re-renders and runs the effects whose *)
(* dependencies changed; all of that is one action.  An async handler is   *)
(* two actions: the part before the await on fetch, and the part after     *)
(* the response (or the rejection) has arrived.  The requests that are     *)
(* awaiting their response are the sequence net, in the order of issue.    *)
(*                                                                         *)
(* What a component renders is a function of its state cells (the Render   *)
(* and Shown operators).  A render that throws is reported by that         *)
(* function; what React does with the tree afterwards is decided outside   *)
(* the component and is not part of the state.                             *)
(*                                                                         *)
(* unit says what is mounted.  The two Apps are separate programs: a       *)
(* behaviour runs the tabbed App, or the single-view App, or the API       *)
(* helper, or (to compare them) both Apps fed the same events and the      *)
(* same responses.                                                         *)
(***************************************************************************)
EXTENDS Integers, Sequences, FiniteSets, TLC

VARIABLES
    unit,     \* what is mounted: "tabbed", "single", "both" (side by side), "api"
    tabbed,   \* useState cells of the tabbed App
    single,   \* useState cells of the single-view App
    net,      \* requests in flight, oldest first
    api,      \* settlement of the last searchAPI or chatAPI promise
    event,    \* the event handled last (history)
    performed \* a search or mapping request has been issued since mount (history)

vars == <<unit, tabbed, single, net, api, event, performed>>

(***************************************************************************)
(* Bounds                                                                  *)
(***************************************************************************)
MaxLen == 1        \* longest text typed into an input
MaxInFlight == 2   \* most requests awaiting a response at once
MaxMatches == 1    \* longest match list in a response body
MaxButtons == 2    \* the tabbed App's system buttons that get clicked: the first MaxButtons

(***************************************************************************)
(* Values                                                                  *)
(***************************************************************************)
Chars == {" ", "a"}

Texts == UNION {[1..n -> Chars] : n \in 0..MaxLen}

null == [null |-> TRUE]

\* String.prototype.trim
RECURSIVE trimStart(_)
trimStart(s) ==
    IF s # <<>> /\ Head(s) = " " THEN trimStart(Tail(s)) ELSE s

RECURSIVE trimEnd(_)
trimEnd(s) ==
    IF s # <<>> /\ s[Len(s)] = " " THEN trimEnd(SubSeq(s, 1, Len(s) - 1)) ELSE s

trim(s) == trimEnd(trimStart(s))

\* !s.trim()
Blank(s) == trim(s) = <<>>

\* Array.prototype.includes
includes(arr, x) == \E i \in 1..Len(arr) : arr[i] = x

\* arr.filter(s => s !== x)
filterOut(arr, x) == SelectSeq(arr, LAMBDA s : s # x)

\* the system buttons, in the order rendered
SystemButtons == <<"ALL", "AYURVEDA", "UNANI", "SIDDHA">>

(***************************************************************************)
(* The backend, seen from the client.  A fetch either rejects with an      *)
(* Error, or resolves to a response with a status and a body text that     *)
(* response.json() parses or fails to parse.                               *)
(***************************************************************************)
Statuses == {200, 404, 500}

\* response.ok
ok(status) == status >= 200 /\ status <= 299

\* `HTTP error! status: ${response.status}`
HttpErrorMessage(status) ==
    CASE status = 200 -> "HTTP error! status: 200"
      [] status = 404 -> "HTTP error! status: 404"
      [] status = 500 -> "HTTP error! status: 500"

\* message of the SyntaxError of a failed response.json()
SyntaxErrorMessage == "Unexpected token < in JSON"

\* message of the TypeError of reading .detail of null
TypeErrorMessage == "Cannot read properties of null"

RejectMessages == {"Failed to fetch", ""}

\* one entry of namaste_matches / icd11_matches
Match == [Code |-> "X1"]

MatchLists == {[i \in 1..n |-> Match] : n \in 0..MaxMatches}

\* 2xx bodies of POST /search for a request body b
SearchBodies(b) ==
    {[query |-> b.query,
      systems |-> IF "systems" \in DOMAIN b THEN b.systems ELSE <<"ALL">>,
      namaste_matches |-> n, icd11_matches |-> i] : n \in MatchLists, i \in MatchLists}

\* 2xx bodies of POST /map for a request body b
MapBodies(b) ==
    {[namaste_code |-> b.namaste_code, namaste_info |-> [NAMC_CODE |-> b.namaste_code],
      icd11_matches |-> i] : i \in MatchLists}

\* 2xx bodies of POST /chat
ChatBodies == {[response |-> <<>>], [response |-> <<"a">>]}

\* bodies of a non-2xx response, parsed
ErrorBodies == {null, [none |-> TRUE], [detail |-> ""], [detail |-> "Not found"]}

\* the result of response.json(): parsed value, or a rejection
Parsed(v) == [parses |-> TRUE, value |-> v]

Unparseable == [parses |-> FALSE]

Outcomes(req) ==
    {[kind |-> "rejected", message |-> m] : m \in RejectMessages}
    \cup {[kind |-> "response", status |-> 200, json |-> Parsed(v)] :
             v \in CASE req.url = "/search" -> SearchBodies(req.body)
                    [] req.url = "/map" -> MapBodies(req.body)
                    [] req.url = "/chat" -> ChatBodies}
    \cup {[kind |-> "response", status |-> 200, json |-> Unparseable]}
    \cup {[kind |-> "response", status |-> s, json |-> Parsed(v)] :
             s \in {x \in Statuses : ~ok(x)}, v \in ErrorBodies}
    \cup {[kind |-> "response", status |-> s, json |-> Unparseable] :
             s \in {x \in Statuses : ~ok(x)}}

\* the outcome is a 2xx response with a body that parses
Succeeded(o) == o.kind = "response" /\ ok(o.status) /\ o.json.parses

\* truthiness of errorData.detail
DetailOf(errorData) ==
    IF "detail" \in DOMAIN errorData THEN errorData.detail ELSE ""

(***************************************************************************)
(* The tabbed App                                                          *)
(***************************************************************************)
InitTabbed ==
    [searchQuery |-> <<>>, mappingCode |-> <<>>, selectedSystems |-> <<"ALL">>,
     searchResults |-> null, mappingResults |-> null, activeTab |-> "search",
     searchLoading |-> FALSE, mappingLoading |-> FALSE, error |-> ""]

\* handleSearch that clears the search results when it starts, as handleMapping does
handleSearch_ClearsResults(st) ==
    IF Blank(st.searchQuery) THEN st
    ELSE [st EXCEPT !.searchLoading = TRUE, !.mappingLoading = FALSE,
                    !.error = "", !.mappingResults = null, !.searchResults = null]

\* handleSearch up to the await on fetch
handleSearch(st) ==
    IF Blank(st.searchQuery) THEN st
    ELSE [st EXCEPT !.searchLoading = TRUE, !.mappingLoading = FALSE,
                    !.error = "", !.mappingResults = null]

\* handleSearchFetch with the systems left out of the body
handleSearchFetch_NoSystems(st) ==
    IF Blank(st.searchQuery) THEN <<>>
    ELSE <<[from |-> "tabbed", url |-> "/search", body |-> [query |-> st.searchQuery]]>>

\* the requests handleSearch issues
handleSearchFetch(st) ==
    IF Blank(st.searchQuery) THEN <<>>
    ELSE <<[from |-> "tabbed", url |-> "/search",
            body |-> [query |-> st.searchQuery, systems |-> st.selectedSystems]]>>

\* the message of the Error that reaches the catch block of the tabbed handlers;
\* "" stands for an Error with an empty message
ThrownMessage(o) ==
    IF o.kind = "rejected" THEN o.message
    ELSE IF ~ok(o.status)
         THEN LET errorData == IF o.json.parses THEN o.json.value ELSE [none |-> TRUE]
              IN  IF errorData = null THEN TypeErrorMessage
                  ELSE IF DetailOf(errorData) # "" THEN DetailOf(errorData)
                  ELSE HttpErrorMessage(o.status)
         ELSE SyntaxErrorMessage

\* handleSearchSettle with setError moved out of the catch block
handleSearchSettle_ErrorAlways(st, o) ==
    LET st1 == IF Succeeded(o)
               THEN [st EXCEPT !.searchResults = o.json.value]
               ELSE st
    IN  [st1 EXCEPT !.searchLoading = FALSE,
                    !.error = "Failed to fetch search results. Please try again."]

\* handleSearch from the response on: try, catch, finally
handleSearchSettle(st, o) ==
    LET st1 == IF Succeeded(o)
               THEN [st EXCEPT !.searchResults = o.json.value]
               ELSE [st EXCEPT !.error =
                        IF ThrownMessage(o) # "" THEN ThrownMessage(o)
                        ELSE "Failed to fetch search results. Please try again."]
    IN  [st1 EXCEPT !.searchLoading = FALSE]

\* handleMapping that clears the error before it looks at mappingCode
handleMapping_ClearsErrorFirst(st) ==
    IF Blank(st.mappingCode) THEN [st EXCEPT !.error = ""]
    ELSE [st EXCEPT !.mappingLoading = TRUE, !.searchLoading = FALSE,
                    !.error = "", !.searchResults = null]

\* handleMapping up to the await on fetch
handleMapping(st) ==
    IF Blank(st.mappingCode) THEN st
    ELSE [st EXCEPT !.mappingLoading = TRUE, !.searchLoading = FALSE,
                    !.error = "", !.searchResults = null]

\* the requests handleMapping issues
handleMappingFetch(st) ==
    IF Blank(st.mappingCode) THEN <<>>
    ELSE <<[from |-> "tabbed", url |-> "/map",
            body |-> [namaste_code |-> st.mappingCode]]>>

\* handleMapping from the response on, storing the body in the search cell
handleMappingSettle_IntoSearchResults(st, o) ==
    LET st1 == IF Succeeded(o)
               THEN [st EXCEPT !.searchResults = o.json.value]
               ELSE [st EXCEPT !.error =
                        IF ThrownMessage(o) # "" THEN ThrownMessage(o)
                        ELSE "Failed to fetch mapping results. Please try again."]
    IN  [st1 EXCEPT !.mappingLoading = FALSE]

\* handleMapping from the response on
handleMappingSettle(st, o) ==
    LET st1 == IF Succeeded(o)
               THEN [st EXCEPT !.mappingResults = o.json.value]
               ELSE [st EXCEPT !.error =
                        IF ThrownMessage(o) # "" THEN ThrownMessage(o)
                        ELSE "Failed to fetch mapping results. Please try again."]
    IN  [st1 EXCEPT !.mappingLoading = FALSE]

\* toggleSystem without the branch that replaces "ALL" by the system
toggleSystem_KeepsAll(st, system) ==
    IF system = "ALL" THEN [st EXCEPT !.selectedSystems = <<"ALL">>]
    ELSE LET newSystems ==
                 IF includes(st.selectedSystems, system)
                 THEN filterOut(st.selectedSystems, system)
                 ELSE Append(st.selectedSystems, system)
         IN  [st EXCEPT !.selectedSystems =
                 IF Len(newSystems) > 0 THEN newSystems ELSE <<"ALL">>]

\* toggleSystem without the fallback of an empty selection to "ALL"
toggleSystem_NoFallback(st, system) ==
    IF system = "ALL" THEN [st EXCEPT !.selectedSystems = <<"ALL">>]
    ELSE LET newSystems ==
                 IF includes(st.selectedSystems, "ALL") THEN <<system>>
                 ELSE IF includes(st.selectedSystems, system)
                      THEN filterOut(st.selectedSystems, system)
                      ELSE Append(st.selectedSystems, system)
         IN  [st EXCEPT !.selectedSystems = newSystems]

\* toggleSystem
toggleSystem(st, system) ==
    IF system = "ALL" THEN [st EXCEPT !.selectedSystems = <<"ALL">>]
    ELSE LET newSystems ==
                 IF includes(st.selectedSystems, "ALL") THEN <<system>>
                 ELSE IF includes(st.selectedSystems, system)
                      THEN filterOut(st.selectedSystems, system)
                      ELSE Append(st.selectedSystems, system)
         IN  [st EXCEPT !.selectedSystems =
                 IF Len(newSystems) > 0 THEN newSystems ELSE <<"ALL">>]

\* the effect with dependencies [searchQuery, mappingCode]
useEffectClear(st) ==
    IF Blank(st.searchQuery) /\ Blank(st.mappingCode)
    THEN [st EXCEPT !.searchResults = null, !.mappingResults = null]
    ELSE st

\* handleKeyPress of the tabbed App
handleKeyPress(st, key) ==
    IF key = "Enter"
    THEN IF st.activeTab = "search" THEN handleSearch(st) ELSE handleMapping(st)
    ELSE st

handleKeyPressFetch(st, key) ==
    IF key = "Enter"
    THEN IF st.activeTab = "search" THEN handleSearchFetch(st) ELSE handleMappingFetch(st)
    ELSE <<>>

(***************************************************************************)
(* What the tabbed App renders                                             *)
(***************************************************************************)
\* the search input and the Search button: shown on the search tab, disabled={searchLoading}
SearchEnabled(st) == st.activeTab = "search" /\ ~st.searchLoading

\* the mapping input and the Map button: shown on the map tab, disabled={mappingLoading}
MapEnabled(st) == st.activeTab = "map" /\ ~st.mappingLoading

\* the system buttons are part of the search tab
SystemButtonsShown(st) == st.activeTab = "search"

\* formatNamasteResults: one card per element, headed "Result {index + 1}"
formatNamasteResults(results) ==
    IF results = null \/ Len(results) = 0 THEN <<>>
    ELSE [index \in 1..Len(results) |-> [heading |-> index, item |-> results[index]]]

\* formatICD11Results: one card per element, headed "ICD-11 Result {index + 1}"
formatICD11Results(results) ==
    IF results = null \/ Len(results) = 0 THEN <<>>
    ELSE [index \in 1..Len(results) |-> [heading |-> index, item |-> results[index]]]

\* the Example section
ExampleShown(st) ==
    /\ st.searchResults = null /\ st.mappingResults = null
    /\ ~st.searchLoading /\ ~st.mappingLoading

\* the Search Results section; match lists are arrays, as POST /search returns them
RenderSearchResults(st) ==
    IF st.searchResults # null /\ st.activeTab = "search"
    THEN [shown |-> TRUE, crashed |-> FALSE,
          namasteCards |-> IF Len(st.searchResults.namaste_matches) > 0
                           THEN formatNamasteResults(st.searchResults.namaste_matches)
                           ELSE <<>>,
          icd11Cards |-> IF Len(st.searchResults.icd11_matches) > 0
                         THEN formatICD11Results(st.searchResults.icd11_matches)
                         ELSE <<>>]
    ELSE [shown |-> FALSE, crashed |-> FALSE, namasteCards |-> <<>>, icd11Cards |-> <<>>]

(***************************************************************************)
(* The single-view App                                                     *)
(***************************************************************************)
InitSingle ==
    [searchQuery |-> <<>>, selectedSystems |-> <<"ALL">>, searchResults |-> null,
     loading |-> FALSE, error |-> ""]

\* handleSearch of the single-view App up to the await on fetch
SingleHandleSearch(st) ==
    IF Blank(st.searchQuery) THEN st
    ELSE [st EXCEPT !.loading = TRUE, !.error = ""]

\* the requests it issues
SingleHandleSearchFetch(st) ==
    IF Blank(st.searchQuery) THEN <<>>
    ELSE <<[from |-> "single", url |-> "/search",
            body |-> [query |-> st.searchQuery, systems |-> st.selectedSystems]]>>

\* handleSearch of the single-view App from the response on
SingleHandleSearchSettle(st, o) ==
    LET st1 == IF Succeeded(o)
               THEN [st EXCEPT !.searchResults = o.json.value]
               ELSE [st EXCEPT !.error = "Failed to fetch search results. Please try again."]
    IN  [st1 EXCEPT !.loading = FALSE]

\* handleKeyPress of the single-view App
SingleHandleKeyPress(st, key) ==
    IF key = "Enter" THEN SingleHandleSearch(st) ELSE st

SingleHandleKeyPressFetch(st, key) ==
    IF key = "Enter" THEN SingleHandleSearchFetch(st) ELSE <<>>

\* toggleSystem of the single-view App, falling back to "ALL" once every
\* individual system is selected
SingleToggleSystem_CollapsesAll(st, system) ==
    IF system = "ALL" THEN [st EXCEPT !.selectedSystems = <<"ALL">>]
    ELSE LET newSystems ==
                 IF includes(st.selectedSystems, "ALL") THEN <<system>>
                 ELSE IF includes(st.selectedSystems, system)
                      THEN filterOut(st.selectedSystems, system)
                      ELSE Append(st.selectedSystems, system)
         IN  [st EXCEPT !.selectedSystems =
                 IF Len(newSystems) > 0 /\ Len(newSystems) < Len(SystemButtons) - 1
                 THEN newSystems ELSE <<"ALL">>]

\* toggleSystem of the single-view App
SingleToggleSystem(st, system) ==
    IF system = "ALL" THEN [st EXCEPT !.selectedSystems = <<"ALL">>]
    ELSE LET newSystems ==
                 IF includes(st.selectedSystems, "ALL") THEN <<system>>
                 ELSE IF includes(st.selectedSystems, system)
                      THEN filterOut(st.selectedSystems, system)
                      ELSE Append(st.selectedSystems, system)
         IN  [st EXCEPT !.selectedSystems =
                 IF Len(newSystems) > 0 THEN newSystems ELSE <<"ALL">>]

\* the effect with dependencies [searchQuery]
SingleUseEffectClear(st) ==
    IF Blank(st.searchQuery) THEN [st EXCEPT !.searchResults = null] ELSE st

\* the search input and button without the disabled attribute
SingleSearchEnabled_Always(st) == TRUE

\* the search input and the Search button: disabled={loading}
SingleSearchEnabled(st) == ~st.loading

\* the Example section
SingleExampleShown(st) == st.searchResults = null /\ ~st.loading

\* the Results section.  icd11_matches is an array, as POST /search returns it:
\* it is truthy and differs from "No ICD-11 matches found", so .split('\n') is
\* called on it, and an Array has no split: the render throws a TypeError.
SingleRenderSearchResults(st) ==
    IF st.searchResults # null
    THEN [shown |-> TRUE, crashed |-> TRUE,
          namasteCards |-> IF Len(st.searchResults.namaste_matches) > 0
                           THEN formatNamasteResults(st.searchResults.namaste_matches)
                           ELSE <<>>,
          icd11Cards |-> <<>>]
    ELSE [shown |-> FALSE, crashed |-> FALSE, namasteCards |-> <<>>, icd11Cards |-> <<>>]

(***************************************************************************)
(* The API helper                                                          *)
(***************************************************************************)
\* searchAPI(query) up to the await on fetch: the request it issues
searchAPI(query) ==
    <<[from |-> "api", url |-> "/search", body |-> [query |-> query]]>>

\* searchAPI from the response on: the settlement of its promise
searchAPISettle(o) ==
    IF o.kind = "rejected" THEN [state |-> "rejected", message |-> o.message]
    ELSE IF ~ok(o.status) THEN [state |-> "rejected", message |-> HttpErrorMessage(o.status)]
    ELSE IF ~o.json.parses THEN [state |-> "rejected", message |-> SyntaxErrorMessage]
    ELSE [state |-> "fulfilled", value |-> o.json.value]

\* an argument the caller omits, and one it passes
undefined == [given |-> FALSE]

Given(v) == [given |-> TRUE, value |-> v]

\* the conversation histories a caller passes, or omits
Histories == {undefined, Given(<<>>), Given(<<[role |-> "user", content |-> <<"a">>]>>)}

\* chatAPI with no default value for conversationHistory: JSON.stringify
\* drops the undefined property
chatAPI_NoDefault(message, conversationHistory) ==
    <<[from |-> "api", url |-> "/chat",
       body |-> IF conversationHistory = undefined THEN [query |-> message]
                ELSE [query |-> message,
                      conversation_history |-> conversationHistory.value]]>>

\* chatAPI(message, conversationHistory = []) up to the await on fetch: the
\* request it issues
chatAPI(message, conversationHistory) ==
    LET history == IF conversationHistory = undefined THEN <<>>
                   ELSE conversationHistory.value
    IN  <<[from |-> "api", url |-> "/chat",
           body |-> [query |-> message, conversation_history |-> history]]>>

\* chatAPI from the response on: the settlement of its promise
chatAPISettle(o) ==
    IF o.kind = "rejected" THEN [state |-> "rejected", message |-> o.message]
    ELSE IF ~ok(o.status) THEN [state |-> "rejected", message |-> HttpErrorMessage(o.status)]
    ELSE IF ~o.json.parses THEN [state |-> "rejected", message |-> SyntaxErrorMessage]
    ELSE [state |-> "fulfilled", value |-> o.json.value]

(***************************************************************************)
(* Events                                                                  *)
(***************************************************************************)
Keys == {"Enter", "a"}

\* the history entry of a trigger (Search, Map, Enter): the requests it issued
Triggered(reqs) == [kind |-> "trigger", issued |-> reqs]

\* the history entry of a settled request: what was asked, and what came back
Settled(req, o) ==
    [kind |-> "settle", url |-> req.url,
     result |-> IF o.kind = "rejected" THEN "rejected"
                ELSE IF ~ok(o.status) THEN "http"
                ELSE IF ~o.json.parses THEN "unparseable"
                ELSE "ok",
     data |-> IF Succeeded(o) THEN o.json.value ELSE null,
     outcome |-> o]

\* room for the requests a handler issues
Room(reqs) == Len(net) + Len(reqs) <= MaxInFlight

\* net without its i-th request
Without(i) == SubSeq(net, 1, i - 1) \o SubSeq(net, i + 1, Len(net))

\* the requests of reqs that app issued, oldest first
IssuedBy(reqs, app) == SelectSeq(reqs, LAMBDA r : r.from = app)

\* the requests in flight that app issued
InFlight(app) == IssuedBy(net, app)

\* ---- the tabbed App alone ----

TypeSearch(v) ==
    /\ unit = "tabbed"
    /\ SearchEnabled(tabbed)
    /\ v # tabbed.searchQuery
    /\ tabbed' = useEffectClear([tabbed EXCEPT !.searchQuery = v])
    /\ event' = [kind |-> "ui"]
    /\ UNCHANGED <<unit, single, net, api, performed>>

TypeCode(v) ==
    /\ unit = "tabbed"
    /\ MapEnabled(tabbed)
    /\ v # tabbed.mappingCode
    /\ tabbed' = useEffectClear([tabbed EXCEPT !.mappingCode = v])
    /\ event' = [kind |-> "ui"]
    /\ UNCHANGED <<unit, single, net, api, performed>>

ClickTab(tab) ==
    /\ unit = "tabbed"
    /\ tabbed' = [tabbed EXCEPT !.activeTab = tab]
    /\ event' = [kind |-> "ui"]
    /\ UNCHANGED <<unit, single, net, api, performed>>

ClickSystem(system) ==
    /\ unit = "tabbed"
    /\ SystemButtonsShown(tabbed)
    /\ tabbed' = toggleSystem(tabbed, system)
    /\ event' = [kind |-> "ui"]
    /\ UNCHANGED <<unit, single, net, api, performed>>

ClickSearch ==
    /\ unit = "tabbed"
    /\ SearchEnabled(tabbed)
    /\ Room(handleSearchFetch(tabbed))
    /\ tabbed' = handleSearch(tabbed)
    /\ net' = net \o handleSearchFetch(tabbed)
    /\ event' = Triggered(handleSearchFetch(tabbed))
    /\ performed' = (performed \/ handleSearchFetch(tabbed) # <<>>)
    /\ UNCHANGED <<unit, single, api>>

ClickMap ==
    /\ unit = "tabbed"
    /\ MapEnabled(tabbed)
    /\ Room(handleMappingFetch(tabbed))
    /\ tabbed' = handleMapping(tabbed)
    /\ net' = net \o handleMappingFetch(tabbed)
    /\ event' = Triggered(handleMappingFetch(tabbed))
    /\ performed' = (performed \/ handleMappingFetch(tabbed) # <<>>)
    /\ UNCHANGED <<unit, single, api>>

\* a key pressed in the input of the active tab
KeyPress(key) ==
    /\ unit = "tabbed"
    /\ SearchEnabled(tabbed) \/ MapEnabled(tabbed)
    /\ Room(handleKeyPressFetch(tabbed, key))
    /\ tabbed' = handleKeyPress(tabbed, key)
    /\ net' = net \o handleKeyPressFetch(tabbed, key)
    /\ event' = IF key = "Enter" THEN Triggered(handleKeyPressFetch(tabbed, key))
                ELSE [kind |-> "ui"]
    /\ performed' = (performed \/ handleKeyPressFetch(tabbed, key) # <<>>)
    /\ UNCHANGED <<unit, single, api>>

\* Settle that issues the request again when it failed
Settle_Retry(i, o) ==
    /\ unit = "tabbed"
    /\ tabbed' = IF Succeeded(o)
                 THEN IF net[i].url = "/search" THEN handleSearchSettle(tabbed, o)
                      ELSE handleMappingSettle(tabbed, o)
                 ELSE tabbed
    /\ net' = IF Succeeded(o) THEN Without(i) ELSE Without(i) \o <<net[i]>>
    /\ event' = Settled(net[i], o)
    /\ UNCHANGED <<unit, single, api, performed>>

\* the response to (or the rejection of) the i-th request in flight arrives
Settle(i, o) ==
    /\ unit = "tabbed"
    /\ tabbed' = IF net[i].url = "/search" THEN handleSearchSettle(tabbed, o)
                 ELSE handleMappingSettle(tabbed, o)
    /\ net' = Without(i)
    /\ event' = Settled(net[i], o)
    /\ UNCHANGED <<unit, single, api, performed>>

\* ---- the single-view App alone ----

SingleType(v) ==
    /\ unit = "single"
    /\ SingleSearchEnabled(single)
    /\ v # single.searchQuery
    /\ single' = SingleUseEffectClear([single EXCEPT !.searchQuery = v])
    /\ event' = [kind |-> "ui"]
    /\ UNCHANGED <<unit, tabbed, net, api, performed>>

SingleClickSystem(system) ==
    /\ unit = "single"
    /\ single' = SingleToggleSystem(single, system)
    /\ event' = [kind |-> "ui"]
    /\ UNCHANGED <<unit, tabbed, net, api, performed>>

SingleClickSearch ==
    /\ unit = "single"
    /\ SingleSearchEnabled(single)
    /\ Room(SingleHandleSearchFetch(single))
    /\ single' = SingleHandleSearch(single)
    /\ net' = net \o SingleHandleSearchFetch(single)
    /\ event' = Triggered(SingleHandleSearchFetch(single))
    /\ performed' = (performed \/ SingleHandleSearchFetch(single) # <<>>)
    /\ UNCHANGED <<unit, tabbed, api>>

SingleKeyPress(key) ==
    /\ unit = "single"
    /\ SingleSearchEnabled(single)
    /\ Room(SingleHandleKeyPressFetch(single, key))
    /\ single' = SingleHandleKeyPress(single, key)
    /\ net' = net \o SingleHandleKeyPressFetch(single, key)
    /\ event' = IF key = "Enter" THEN Triggered(SingleHandleKeyPressFetch(single, key))
                ELSE [kind |-> "ui"]
    /\ performed' = (performed \/ SingleHandleKeyPressFetch(single, key) # <<>>)
    /\ UNCHANGED <<unit, tabbed, api>>

SingleSettle(i, o) ==
    /\ unit = "single"
    /\ single' = SingleHandleSearchSettle(single, o)
    /\ net' = Without(i)
    /\ event' = Settled(net[i], o)
    /\ UNCHANGED <<unit, tabbed, api, performed>>

\* ---- both Apps side by side, given the same search-only events ----

\* seq without the first request that app issued
RECURSIVE DropFirst(_, _)
DropFirst(seq, app) ==
    IF seq = <<>> THEN <<>>
    ELSE IF Head(seq).from = app THEN Tail(seq)
    ELSE <<Head(seq)>> \o DropFirst(Tail(seq), app)

BothType(v) ==
    /\ unit = "both"
    /\ \/ SearchEnabled(tabbed) /\ v # tabbed.searchQuery
       \/ SingleSearchEnabled(single) /\ v # single.searchQuery
    /\ tabbed' = IF SearchEnabled(tabbed) /\ v # tabbed.searchQuery
                 THEN useEffectClear([tabbed EXCEPT !.searchQuery = v])
                 ELSE tabbed
    /\ single' = IF SingleSearchEnabled(single) /\ v # single.searchQuery
                 THEN SingleUseEffectClear([single EXCEPT !.searchQuery = v])
                 ELSE single
    /\ event' = [kind |-> "ui"]
    /\ UNCHANGED <<unit, net, api, performed>>

BothClickSystem(system) ==
    /\ unit = "both"
    /\ tabbed' = IF SystemButtonsShown(tabbed) THEN toggleSystem(tabbed, system) ELSE tabbed
    /\ single' = SingleToggleSystem(single, system)
    /\ event' = [kind |-> "ui"]
    /\ UNCHANGED <<unit, net, api, performed>>

BothClickSearch ==
    LET t == IF SearchEnabled(tabbed) THEN handleSearchFetch(tabbed) ELSE <<>>
        s == IF SingleSearchEnabled(single) THEN SingleHandleSearchFetch(single) ELSE <<>>
    IN  /\ unit = "both"
        /\ SearchEnabled(tabbed) \/ SingleSearchEnabled(single)
        /\ Room(t \o s)
        /\ tabbed' = IF SearchEnabled(tabbed) THEN handleSearch(tabbed) ELSE tabbed
        /\ single' = IF SingleSearchEnabled(single) THEN SingleHandleSearch(single) ELSE single
        /\ net' = net \o t \o s
        /\ event' = Triggered(t \o s)
        /\ performed' = (performed \/ t \o s # <<>>)
        /\ UNCHANGED <<unit, api>>

BothKeyPress(key) ==
    LET t == IF SearchEnabled(tabbed) THEN handleKeyPressFetch(tabbed, key) ELSE <<>>
        s == IF SingleSearchEnabled(single) THEN SingleHandleKeyPressFetch(single, key) ELSE <<>>
    IN  /\ unit = "both"
        /\ SearchEnabled(tabbed) \/ SingleSearchEnabled(single)
        /\ Room(t \o s)
        /\ tabbed' = IF SearchEnabled(tabbed) THEN handleKeyPress(tabbed, key) ELSE tabbed
        /\ single' = IF SingleSearchEnabled(single) THEN SingleHandleKeyPress(single, key)
                     ELSE single
        /\ net' = net \o t \o s
        /\ event' = IF key = "Enter" THEN Triggered(t \o s) ELSE [kind |-> "ui"]
        /\ performed' = (performed \/ t \o s # <<>>)
        /\ UNCHANGED <<unit, api>>

\* the backend answers the oldest request of each App, and answers them alike
BothSettle(o) ==
    /\ unit = "both"
    /\ net # <<>>
    /\ tabbed' = IF InFlight("tabbed") # <<>> THEN handleSearchSettle(tabbed, o) ELSE tabbed
    /\ single' = IF InFlight("single") # <<>> THEN SingleHandleSearchSettle(single, o)
                 ELSE single
    /\ net' = DropFirst(DropFirst(net, "tabbed"), "single")
    /\ event' = Settled(net[1], o)
    /\ UNCHANGED <<unit, api, performed>>

\* ---- the API helper alone ----

CallSearchAPI(query) ==
    /\ unit = "api"
    /\ Room(searchAPI(query))
    /\ net' = net \o searchAPI(query)
    /\ api' = [state |-> "pending"]
    /\ event' = [kind |-> "call", query |-> query, issued |-> searchAPI(query)]
    /\ UNCHANGED <<unit, tabbed, single, performed>>

SearchAPISettle(i, o) ==
    /\ unit = "api"
    /\ net[i].url = "/search"
    /\ api' = searchAPISettle(o)
    /\ net' = Without(i)
    /\ event' = Settled(net[i], o)
    /\ UNCHANGED <<unit, tabbed, single, performed>>

CallChatAPI(message, conversationHistory) ==
    /\ unit = "api"
    /\ Room(chatAPI(message, conversationHistory))
    /\ net' = net \o chatAPI(message, conversationHistory)
    /\ api' = [state |-> "pending"]
    /\ event' = [kind |-> "call", message |-> message, history |-> conversationHistory,
                 issued |-> chatAPI(message, conversationHistory)]
    /\ UNCHANGED <<unit, tabbed, single, performed>>

ChatAPISettle(i, o) ==
    /\ unit = "api"
    /\ net[i].url = "/chat"
    /\ api' = chatAPISettle(o)
    /\ net' = Without(i)
    /\ event' = Settled(net[i], o)
    /\ UNCHANGED <<unit, tabbed, single, performed>>

Init ==
    /\ unit \in {"tabbed", "single", "both", "api"}
    /\ tabbed = InitTabbed
    /\ single = InitSingle
    /\ net = <<>>
    /\ api = [state |-> "idle"]
    /\ event = [kind |-> "mount"]
    /\ performed = FALSE

NextTabbed ==
    \/ \E v \in Texts : TypeSearch(v)
    \/ \E v \in Texts : TypeCode(v)
    \/ \E tab \in {"search", "map"} : ClickTab(tab)
    \/ \E i \in 1..MaxButtons : ClickSystem(SystemButtons[i])
    \/ ClickSearch
    \/ ClickMap
    \/ \E key \in Keys : KeyPress(key)
    \/ \E i \in 1..Len(net) : \E o \in Outcomes(net[i]) : Settle(i, o)

NextSingle ==
    \/ \E v \in Texts : SingleType(v)
    \/ \E i \in 1..Len(SystemButtons) : SingleClickSystem(SystemButtons[i])
    \/ SingleClickSearch
    \/ \E key \in Keys : SingleKeyPress(key)
    \/ \E i \in 1..Len(net) : \E o \in Outcomes(net[i]) : SingleSettle(i, o)

NextBoth ==
    \/ \E v \in Texts : BothType(v)
    \/ \E i \in 1..Len(SystemButtons) : BothClickSystem(SystemButtons[i])
    \/ BothClickSearch
    \/ \E key \in Keys : BothKeyPress(key)
    \/ \E o \in (IF net = <<>> THEN {} ELSE Outcomes(net[1])) : BothSettle(o)

NextApi ==
    \/ \E query \in Texts : CallSearchAPI(query)
    \/ \E i \in 1..Len(net) : \E o \in Outcomes(net[i]) : SearchAPISettle(i, o)
    \/ \E message \in Texts : \E conversationHistory \in Histories :
           CallChatAPI(message, conversationHistory)
    \/ \E i \in 1..Len(net) : \E o \in Outcomes(net[i]) : ChatAPISettle(i, o)

Next == NextTabbed \/ NextSingle \/ NextBoth \/ NextApi

\* every unit
Spec == Init /\ [][Next]_vars

\* the tabbed App alone
MountTabbed == Init /\ unit = "tabbed"

SpecTabbed == MountTabbed /\ [][NextTabbed]_vars

\* the single-view App alone
MountSingle == Init /\ unit = "single"

SpecSingle == MountSingle /\ [][NextSingle]_vars

\* both Apps side by side
MountBoth == Init /\ unit = "both"

SpecBoth == MountBoth /\ [][NextBoth]_vars

\* the API helpers alone
MountApi == Init /\ unit = "api"

SpecApi == MountApi /\ [][NextApi]_vars

(***************************************************************************)
(* Properties                                                              *)
(***************************************************************************)
TabbedMounted == unit \in {"tabbed", "both"}

SingleMounted == unit \in {"single", "both"}

\* the requests issued by the step
Issued == IF Len(net') > Len(net) THEN SubSeq(net', Len(net) + 1, Len(net')) ELSE <<>>

\* C1: in the tabbed App at most one /search or /map request is in flight at
\* any time.
C1_OneRequestInFlight ==
    TabbedMounted => Len(InFlight("tabbed")) <= 1

\* C2: a Search trigger with a non-blank query issues exactly one POST /search,
\* and right after that request got a 2xx response with a JSON body,
\* searchResults is that body and the error string is empty.
C2_SearchSucceeds ==
    /\ (TabbedMounted /\ event.kind = "trigger" /\ tabbed.activeTab = "search"
            /\ ~Blank(tabbed.searchQuery))
        => /\ Len(IssuedBy(event.issued, "tabbed")) = 1
           /\ IssuedBy(event.issued, "tabbed")[1].url = "/search"
    /\ (SingleMounted /\ event.kind = "trigger" /\ ~Blank(single.searchQuery))
        => /\ Len(IssuedBy(event.issued, "single")) = 1
           /\ IssuedBy(event.issued, "single")[1].url = "/search"
    /\ (TabbedMounted /\ event.kind = "settle" /\ event.url = "/search"
            /\ event.result = "ok")
        => tabbed.searchResults = event.data /\ tabbed.error = ""
    /\ (SingleMounted /\ event.kind = "settle" /\ event.result = "ok")
        => single.searchResults = event.data /\ single.error = ""

\* C3, as stated: the error string becomes non-empty only in the step that
\* handles a non-2xx response.
C3_ErrorOnlyOnHttpError ==
    [][/\ (tabbed'.error # tabbed.error /\ tabbed'.error # "")
            => event'.kind = "settle" /\ event'.result = "http"
       /\ (single'.error # single.error /\ single'.error # "")
            => event'.kind = "settle" /\ event'.result = "http"]_vars

\* C3, amended: the error string becomes non-empty only in the step that
\* handles a failed request (a non-2xx response, a rejected fetch, or a 2xx
\* response whose body does not parse); a 2xx response with a parsed body
\* never sets it.
C3_ErrorOnlyOnFailure ==
    [][/\ (tabbed'.error # tabbed.error /\ tabbed'.error # "")
            => event'.kind = "settle" /\ event'.result # "ok"
       /\ (single'.error # single.error /\ single'.error # "")
            => event'.kind = "settle" /\ event'.result # "ok"]_vars

C3_Witness ==
    /\ unit = "tabbed" /\ event.kind = "settle"
    /\ event.result = "rejected" /\ tabbed.error # ""

\* C4: no retry and no recovery.  A step issues at most one request per App,
\* and only a user trigger issues one; the step that handles a failed request
\* issues none and leaves that request's loading flag false and the error
\* string non-empty; and while no request is issued the error string stays
\* non-empty and the loading flags stay false.
C4_NoRetry ==
    [][/\ \A app \in {"tabbed", "single"} :
            /\ Len(IssuedBy(net', app)) <= Len(IssuedBy(net, app)) + 1
            /\ Len(IssuedBy(net', app)) > Len(IssuedBy(net, app)) => event'.kind = "trigger"
            /\ (event'.kind = "settle" /\ IssuedBy(net, app) # <<>>)
                => Len(IssuedBy(net', app)) = Len(IssuedBy(net, app)) - 1
            /\ event'.kind = "ui" => IssuedBy(net', app) = IssuedBy(net, app)
       /\ (TabbedMounted /\ event'.kind = "settle" /\ event'.result # "ok"
               /\ InFlight("tabbed") # <<>>)
            => /\ tabbed'.error # ""
               /\ event'.url = "/search" => ~tabbed'.searchLoading
               /\ event'.url = "/map" => ~tabbed'.mappingLoading
       /\ (SingleMounted /\ event'.kind = "settle" /\ event'.result # "ok"
               /\ InFlight("single") # <<>>)
            => single'.error # "" /\ ~single'.loading
       /\ Len(net') <= Len(net)
            => /\ tabbed.error # "" => tabbed'.error # ""
               /\ ~tabbed.searchLoading => ~tabbed'.searchLoading
               /\ ~tabbed.mappingLoading => ~tabbed'.mappingLoading
               /\ single.error # "" => single'.error # ""
               /\ ~single.loading => ~single'.loading]_vars

C4_Witness ==
    /\ unit = "tabbed" /\ event.kind = "ui" /\ net = <<>>
    /\ tabbed.error # "" /\ ~tabbed.searchLoading /\ ~tabbed.mappingLoading

\* C5: the body of every POST /search carries as query the search text of the
\* moment the search was triggered; the App handlers also send, as systems, the
\* filter selection of that moment, and searchAPI sends the query alone.
C5_SearchBody ==
    [][\A k \in 1..Len(Issued) :
          Issued[k].url = "/search" =>
              CASE Issued[k].from = "tabbed" ->
                       Issued[k].body = [query |-> tabbed.searchQuery,
                                         systems |-> tabbed.selectedSystems]
                [] Issued[k].from = "single" ->
                       Issued[k].body = [query |-> single.searchQuery,
                                         systems |-> single.selectedSystems]
                [] Issued[k].from = "api" ->
                       Issued[k].body = [query |-> event'.query]]_vars

C5_Witness ==
    /\ unit = "tabbed" /\ event.kind = "trigger" /\ event.issued # <<>>
    /\ event.issued[1].url = "/search"
    /\ event.issued[1].body.systems = <<"AYURVEDA">>

\* C6: whenever a view shows the results of a search, rendering does not fail
\* and there is one card per element of namaste_matches and one per element
\* of icd11_matches.
C6_RendersItems ==
    /\ (TabbedMounted /\ RenderSearchResults(tabbed).shown)
        => /\ ~RenderSearchResults(tabbed).crashed
           /\ Len(RenderSearchResults(tabbed).namasteCards)
                  = Len(tabbed.searchResults.namaste_matches)
           /\ Len(RenderSearchResults(tabbed).icd11Cards)
                  = Len(tabbed.searchResults.icd11_matches)
    /\ (SingleMounted /\ SingleRenderSearchResults(single).shown)
        => /\ ~SingleRenderSearchResults(single).crashed
           /\ Len(SingleRenderSearchResults(single).namasteCards)
                  = Len(single.searchResults.namaste_matches)
           /\ Len(SingleRenderSearchResults(single).icd11Cards)
                  = Len(single.searchResults.icd11_matches)

\* C7: in the single-view App, whenever searchQuery is blank, searchResults is
\* null.
C7_BlankQueryNoResults ==
    SingleMounted => (Blank(single.searchQuery) => single.searchResults = null)

\* a search succeeded (no error since the trigger, nothing in flight) and the
\* query was blanked afterwards
C7_Witness ==
    /\ unit = "single" /\ performed /\ net = <<>> /\ single.error = ""
    /\ Blank(single.searchQuery) /\ single.searchResults = null

\* C8: in the tabbed App, whenever searchQuery and mappingCode are both blank,
\* searchResults and mappingResults are both null.
C8_BlankInputsNoResults ==
    (TabbedMounted /\ Blank(tabbed.searchQuery) /\ Blank(tabbed.mappingCode))
        => tabbed.searchResults = null /\ tabbed.mappingResults = null

\* C9: once a search or mapping request has been issued, the Example section
\* is not rendered.
C9_ExampleOnlyBeforeSearch ==
    performed => /\ TabbedMounted => ~ExampleShown(tabbed)
                 /\ SingleMounted => ~SingleExampleShown(single)

\* the url and body of each request
Payloads(reqs) == [k \in 1..Len(reqs) |-> [url |-> reqs[k].url, body |-> reqs[k].body]]

MapTriggered ==
    /\ TabbedMounted
    /\ event'.kind = "trigger"
    /\ tabbed.activeTab = "map"

\* C11: handleMapping with a non-blank mappingCode issues exactly one request,
\* a POST to /map whose body is {namaste_code: mappingCode}; and when a /map
\* request is answered 2xx with a JSON body, mappingResults is that body.
C11_MappingSucceeds ==
    [][ /\ (MapTriggered /\ ~Blank(tabbed.mappingCode)) =>
              IssuedBy(Issued, "tabbed") =
                  <<[from |-> "tabbed", url |-> "/map",
                     body |-> [namaste_code |-> tabbed.mappingCode]]>>
        /\ (/\ TabbedMounted
            /\ event'.kind = "settle"
            /\ event'.url = "/map"
            /\ event'.result = "ok") =>
              tabbed'.mappingResults = event'.outcome.json.value
      ]_vars

\* a /map request was answered 2xx with a match, and mappingResults holds it
C11_Witness ==
    /\ unit = "tabbed"
    /\ event.kind = "settle"
    /\ event.url = "/map"
    /\ event.result = "ok"
    /\ tabbed.mappingResults # null
    /\ tabbed.mappingResults = event.outcome.json.value
    /\ tabbed.mappingResults.namaste_code = tabbed.mappingCode
    /\ Len(tabbed.mappingResults.icd11_matches) > 0

\* a step of the API helpers alone that called chatAPI
ChatCalled == unit = "api" /\ event'.kind = "call" /\ "message" \in DOMAIN event'

\* a step of the API helpers alone that handled the answer to a /chat request
ChatSettled == unit = "api" /\ event'.kind = "settle" /\ event'.url = "/chat"

\* C12: a call chatAPI(message, conversationHistory) issues exactly one request,
\* a POST to /chat with body {query: message, conversation_history:
\* conversationHistory}, the history being the empty list when it was omitted;
\* only a call issues a request (no retry); a 2xx answer with a JSON body
\* fulfils the promise with that body, and a non-2xx answer rejects it with
\* the message "HTTP error! status: <status>".
C12_ChatAPI ==
    [][ /\ ChatCalled =>
             Issued = <<[from |-> "api", url |-> "/chat",
                         body |-> [query |-> event'.message,
                                   conversation_history |->
                                       IF event'.history.given
                                       THEN event'.history.value
                                       ELSE <<>>]]>>
        /\ (unit = "api" /\ Issued # <<>>) => event'.kind = "call"
        /\ ChatSettled =>
             /\ Len(net') = Len(net) - 1
             /\ event'.result = "ok" =>
                    api' = [state |-> "fulfilled", value |-> event'.outcome.json.value]
             /\ event'.result = "http" =>
                    /\ api'.state = "rejected"
                    /\ event'.outcome.status = 404 => api'.message = "HTTP error! status: 404"
                    /\ event'.outcome.status = 500 => api'.message = "HTTP error! status: 500"
      ]_vars

\* chatAPI was called without a history and its request is in flight
C12_Witness ==
    /\ unit = "api"
    /\ event.kind = "call"
    /\ "message" \in DOMAIN event
    /\ ~event.history.given
    /\ net # <<>>
    /\ net[Len(net)].url = "/chat"
    /\ net[Len(net)].body.conversation_history = <<>>

\* a selection is non-empty, has no duplicates, and holds "ALL" only alone
WellFormed(sel) ==
    /\ Len(sel) > 0
    /\ \A i, j \in 1..Len(sel) : sel[i] = sel[j] => i = j
    /\ (\E i \in 1..Len(sel) : sel[i] = "ALL") => sel = <<"ALL">>

\* C13: after any sequence of toggleSystem calls from ["ALL"], in either App,
\* selectedSystems is non-empty, has no duplicates, and contains "ALL" only
\* when it is exactly ["ALL"].
C13_SelectionWellFormed ==
    /\ TabbedMounted => WellFormed(tabbed.selectedSystems)
    /\ SingleMounted => WellFormed(single.selectedSystems)

\* two individual systems are selected after toggles from ["ALL"]
C13_Witness ==
    /\ unit = "both"
    /\ event.kind = "ui"
    /\ Len(tabbed.selectedSystems) = 2
    /\ Len(single.selectedSystems) = 2

\* sel without s, order kept
RECURSIVE Removed(_, _)
Removed(sel, s) ==
    IF sel = <<>> THEN <<>>
    ELSE IF Head(sel) = s THEN Removed(Tail(sel), s)
    ELSE <<Head(sel)>> \o Removed(Tail(sel), s)

\* the selection after toggling s, by the rule the claim gives
Reference(sel, s) ==
    LET selected(x) == \E i \in 1..Len(sel) : sel[i] = x
    IN  CASE s = "ALL" -> <<"ALL">>
          [] s # "ALL" /\ selected("ALL") -> <<s>>
          [] s # "ALL" /\ ~selected("ALL") /\ selected(s) ->
                 IF Removed(sel, s) = <<>> THEN <<"ALL">> ELSE Removed(sel, s)
          [] OTHER -> sel \o <<s>>

\* the systems a toggle is called with
Systems == {SystemButtons[i] : i \in 1..Len(SystemButtons)}

\* C14: in every reachable selection and for every system s, toggleSystem(s)
\* of either App gives the selection of the reference rule: "ALL" gives
\* ["ALL"]; an individual system while "ALL" is selected gives [s]; a selected
\* individual system is removed, and an empty result becomes ["ALL"]; an
\* unselected individual system is appended.  Appending the third individual
\* system leaves three systems selected, not ["ALL"].
C14_ToggleReference ==
    \A s \in Systems :
        /\ TabbedMounted =>
               /\ toggleSystem(tabbed, s).selectedSystems
                      = Reference(tabbed.selectedSystems, s)
               /\ (Len(tabbed.selectedSystems) = 2 /\ s # "ALL"
                       /\ ~includes(tabbed.selectedSystems, s))
                    => Len(toggleSystem(tabbed, s).selectedSystems) = 3
        /\ SingleMounted =>
               /\ SingleToggleSystem(single, s).selectedSystems
                      = Reference(single.selectedSystems, s)
               /\ (Len(single.selectedSystems) = 2 /\ s # "ALL"
                       /\ ~includes(single.selectedSystems, s))
                    => Len(SingleToggleSystem(single, s).selectedSystems) = 3

\* all three individual systems are selected
C14_Witness ==
    /\ unit = "both"
    /\ event.kind = "ui"
    /\ Len(tabbed.selectedSystems) = 3
    /\ Len(single.selectedSystems) = 3
    /\ ~includes(single.selectedSystems, "ALL")

\* the systems of a selection, as a set
Selected(sel) == {sel[i] : i \in 1..Len(sel)}

\* the selections of the two Apps after toggling s twice in a row
TabbedTwice(s) == toggleSystem(toggleSystem(tabbed, s), s).selectedSystems

SingleTwice(s) == SingleToggleSystem(SingleToggleSystem(single, s), s).selectedSystems

\* C15 as stated: in every reachable selection, toggling the same individual
\* system twice in a row gives back the selectedSystems array that held
\* before, and toggling "ALL" twice gives what toggling it once gives.
C15_ToggleTwiceRestores ==
    /\ \A s \in Systems \ {"ALL"} :
          /\ TabbedMounted => TabbedTwice(s) = tabbed.selectedSystems
          /\ SingleMounted => SingleTwice(s) = single.selectedSystems
    /\ TabbedMounted => TabbedTwice("ALL") = toggleSystem(tabbed, "ALL").selectedSystems
    /\ SingleMounted => SingleTwice("ALL") = SingleToggleSystem(single, "ALL").selectedSystems

\* C15, amended: in every reachable selection, toggling the same individual
\* system twice in a row gives back the same set of selected systems, and the
\* same array when the system was unselected or was the last element of the
\* array; toggling "ALL" twice gives what toggling it once gives.
C15_ToggleTwiceRestoresSet ==
    /\ \A s \in Systems \ {"ALL"} :
          /\ TabbedMounted =>
                 /\ Selected(TabbedTwice(s)) = Selected(tabbed.selectedSystems)
                 /\ (\/ ~includes(tabbed.selectedSystems, s)
                     \/ tabbed.selectedSystems[Len(tabbed.selectedSystems)] = s)
                      => TabbedTwice(s) = tabbed.selectedSystems
          /\ SingleMounted =>
                 /\ Selected(SingleTwice(s)) = Selected(single.selectedSystems)
                 /\ (\/ ~includes(single.selectedSystems, s)
                     \/ single.selectedSystems[Len(single.selectedSystems)] = s)
                      => SingleTwice(s) = single.selectedSystems
    /\ TabbedMounted => TabbedTwice("ALL") = toggleSystem(tabbed, "ALL").selectedSystems
    /\ SingleMounted => SingleTwice("ALL") = SingleToggleSystem(single, "ALL").selectedSystems

\* two systems are selected, and toggling the first one twice moves it to the
\* end of the array
C15_Witness ==
    /\ unit = "both"
    /\ event.kind = "ui"
    /\ tabbed.selectedSystems = <<"AYURVEDA", "UNANI">>
    /\ TabbedTwice("AYURVEDA") = <<"UNANI", "AYURVEDA">>
    /\ single.selectedSystems = <<"AYURVEDA", "UNANI">>
    /\ SingleTwice("AYURVEDA") = <<"UNANI", "AYURVEDA">>

\* the step triggered Search or Map in the tabbed App while the input of the
\* active tab is blank
TabbedBlankTrigger ==
    /\ TabbedMounted
    /\ event'.kind = "trigger"
    /\ IF tabbed.activeTab = "search" THEN Blank(tabbed.searchQuery)
       ELSE Blank(tabbed.mappingCode)

\* the step triggered Search in the single-view App while its query is blank
SingleBlankTrigger ==
    /\ SingleMounted
    /\ event'.kind = "trigger"
    /\ Blank(single.searchQuery)

\* C16: a Search trigger with a blank searchQuery, or a Map trigger with a
\* blank mappingCode, issues no request and leaves every state cell as it was:
\* results, loading flags and the error string, which is not cleared.
C16_BlankTriggerNoOp ==
    [][ /\ TabbedBlankTrigger =>
              /\ IssuedBy(Issued, "tabbed") = <<>>
              /\ tabbed' = tabbed
        /\ SingleBlankTrigger =>
              /\ IssuedBy(Issued, "single") = <<>>
              /\ single' = single
      ]_vars

\* Map was triggered with a whitespace-only code while an error was displayed,
\* and the error is still displayed
C16_Witness ==
    /\ unit = "tabbed"
    /\ event.kind = "trigger"
    /\ event.issued = <<>>
    /\ tabbed.activeTab = "map"
    /\ tabbed.mappingCode = <<" ">>
    /\ tabbed.error # ""

\* app has a request to url in flight
Outstanding(app, url) == \E i \in 1..Len(net) : net[i].from = app /\ net[i].url = url

\* C17: in every reachable state a loading flag is true exactly when its
\* request is in flight: searchLoading (tabbed App) and loading (single-view
\* App) iff a /search request of the App is outstanding, mappingLoading iff a
\* /map request is outstanding; so the search input and button are disabled
\* while a search is outstanding.
C17_LoadingIffInFlight ==
    /\ TabbedMounted =>
           /\ tabbed.searchLoading <=> Outstanding("tabbed", "/search")
           /\ tabbed.mappingLoading <=> Outstanding("tabbed", "/map")
           /\ Outstanding("tabbed", "/search") => ~SearchEnabled(tabbed)
    /\ SingleMounted =>
           /\ single.loading <=> Outstanding("single", "/search")
           /\ Outstanding("single", "/search") => ~SingleSearchEnabled(single)

\* the step handled the answer to a request of app
SettledFor(app) ==
    /\ event'.kind = "settle"
    /\ Len(IssuedBy(net', app)) < Len(IssuedBy(net, app))

\* the fixed fallback text of the handler that fetched url
Fallback(url) ==
    IF url = "/search" THEN "Failed to fetch search results. Please try again."
    ELSE "Failed to fetch mapping results. Please try again."

\* the error string the claim gives for a failed request of the tabbed App
ClaimedError(url, o) ==
    IF o.kind = "rejected"
    THEN IF o.message # "" THEN o.message ELSE Fallback(url)
    ELSE IF /\ o.json.parses
            /\ "detail" \in DOMAIN o.json.value
            /\ o.json.value.detail # ""
         THEN o.json.value.detail
         ELSE HttpErrorMessage(o.status)

\* C18: after a failed request (a non-2xx answer or a rejected fetch) the
\* tabbed App displays the detail field of a JSON body with a non-empty
\* detail, otherwise "HTTP error! status: <status>", and for a rejected fetch
\* the rejection's message or the fixed fallback when that is empty; the
\* single-view App displays "Failed to fetch search results. Please try
\* again."; and a trigger that issues a request resets the error to empty.
C18_ErrorString ==
    [][ /\ (TabbedMounted /\ SettledFor("tabbed")
                /\ event'.result \in {"rejected", "http"})
             => tabbed'.error = ClaimedError(event'.url, event'.outcome)
        /\ (SingleMounted /\ SettledFor("single")
                /\ event'.result \in {"rejected", "http"})
             => single'.error = "Failed to fetch search results. Please try again."
        /\ (TabbedMounted /\ IssuedBy(Issued, "tabbed") # <<>>) => tabbed'.error = ""
        /\ (SingleMounted /\ IssuedBy(Issued, "single") # <<>>) => single'.error = ""
      ]_vars

====
